---- MODULE Spec2Model ----
(***************************************************************************)
(* The agent loop of notebook.ipynb: an AgentExecutor over a ReAct agent   *)
(* (create_react_agent), one tool (ImageGenerator) and a                   *)
(* ConversationBufferWindowMemory.  The notebook builds the loop out of    *)
(* langchain components; the model follows what those components do under  *)
(* the keyword arguments the notebook passes (and the defaults it leaves   *)
(* alone).  A text is a sequence of fragments, so that "the text contains  *)
(* U" is a test on its fragments.                                          *)
(***************************************************************************)
EXTENDS Naturals, Sequences, FiniteSets

VARIABLES
    pc,                  \* "Idle", "Running", "AwaitingToolResult", "Done", "Fault"
    iterations,          \* AgentExecutor._call: iterations
    intermediate_steps,  \* AgentExecutor._call: intermediate_steps (the scratchpad)
    pending,             \* the AgentAction handed to the tool, while it runs
    chat_history,        \* the window loaded from memory when the task started
    chat_memory,         \* memory.chat_memory.messages
    result,              \* what invoke returned to the caller
    raised,              \* the exception that left invoke, "none" if none
    terminationReason,   \* which return path ended the task
    model_output,        \* the parsed Outcome of the latest model call
    tool_error,          \* the raw exception inside the latest tool call, "none" if none
    model_calls,         \* model calls issued by the current task
    tool_calls,          \* tool dispatches of the current task
    in_flight,           \* tool invocations running now
    n_tasks              \* invocations so far in this session

vars == <<pc, iterations, intermediate_steps, pending, chat_history, chat_memory,
          result, raised, terminationReason, model_output, tool_error,
          model_calls, tool_calls, in_flight, n_tasks>>

----------------------------------------------------------------------------
\* Bounds of the model.

\* AgentExecutor.max_iterations (the notebook leaves the default): scaled down.
max_iterations == 3

\* Invocations of agent_executor in one session; more than k, so the window slides.
MaxTasks == 6

----------------------------------------------------------------------------
\* Configuration.

\* ConversationBufferWindowMemory(k=5)
k == 5

early_stopping_method == "generate"

handle_parsing_errors_off == FALSE

handle_parsing_errors == TRUE

return_intermediate_steps_off == FALSE

return_intermediate_steps == TRUE

\* ImageGenerator declares name and description only: BaseTool's handle_tool_error
\* keeps its default.
handle_tool_error == FALSE

\* tools = [ImageGenerator()], by name
tools == {"Image Generator"}

\* The answer a RunnableAgent (what create_react_agent builds) can give when stopped.
SupportedEarlyStopping == {"force"}

----------------------------------------------------------------------------
\* Texts.

ToolExceptionMessage ==
    "Failed to generate image. Tell the user that you are sorry but you cannot show them a picture right now."

InvalidFormat == "Invalid Format: Missing 'Action:' after 'Thought:"

ImageUrl == "https://images.prodia.xyz/584da3b6-7a5e-4522-b4ca-dcd391ca7966.png"

StoppedText == "Agent stopped due to iteration limit or time limit."

TaskInput ==
    "I had a dream the other day where I saw two small cats playing with a ball of yarn. It was so cute! I wish I could have a cat like that or at least see something like that again."

\* What the model may name as a tool: the registered one and one that is not.
ToolNames == {"Image Generator", "Web Search"}

ToolInputs == {"Two small cats playing with a ball of yarn"}

\* Final answers the model may give: one that cites the image, one that does not.
FinalTexts == { <<"You can see the image here: ", ImageUrl>>,
                <<"I cannot help with that.">> }

\* What can go wrong inside the tool (prodia.sdxl.generate, prodia.wait).
RawExceptions == {"ConnectionError: prodia unreachable", "TimeoutError: job timed out"}

Contains(text, fragment) == \E i \in 1..Len(text) : text[i] = fragment

----------------------------------------------------------------------------
\* Outcomes of a model call, as the ReAct output parser classifies them.

Outcome(type, tool, tool_input, text) ==
    [type |-> type, tool |-> tool, tool_input |-> tool_input, text |-> text]

NoOutcome == Outcome("none", "", "", <<>>)

ActionOutcomes == { Outcome("Action", t, i, <<>>) : t \in ToolNames, i \in ToolInputs }

FinalAnswerOutcomes == { Outcome("FinalAnswer", "", "", x) : x \in FinalTexts }

ParseErrorOutcomes == { Outcome("ParseError", "", "", <<InvalidFormat>>) }

Step(tool, tool_input, observation) ==
    [tool |-> tool, tool_input |-> tool_input, observation |-> observation]

NoResult == [output |-> <<>>, intermediate_steps |-> <<>>, chat_history |-> <<>>]

----------------------------------------------------------------------------
\* ImageGenerator._run: the image's URL, or a ToolException with the fixed text
\* whatever was raised inside.

ImageGenerator_run(outcome) ==
    IF outcome.ok
    THEN [raised |-> FALSE, value |-> <<outcome.image_url>>]
    ELSE [raised |-> TRUE,  value |-> <<ToolExceptionMessage>>]

ProdiaOutcomes ==
    { [ok |-> TRUE, image_url |-> ImageUrl, error |-> "none"] } \cup
    { [ok |-> FALSE, image_url |-> "", error |-> e] : e \in RawExceptions }

----------------------------------------------------------------------------
\* ConversationBufferWindowMemory

Message(type, content) == [type |-> type, content |-> content]

LastN(s, n) == IF Len(s) <= n THEN s ELSE SubSeq(s, Len(s) - n + 1, Len(s))

buffer_all(messages) == messages

\* buffer: messages[-k * 2:]
buffer(messages) == LastN(messages, 2 * k)

\* save_context: the input and the output, as two messages
save_context(messages, input, output) ==
    messages \o << Message("human", <<input>>), Message("ai", output) >>

----------------------------------------------------------------------------
\* AgentExecutor

should_continue(i) == i < max_iterations

CanPlan_while_tool_runs == pc \in {"Running", "AwaitingToolResult"}

\* The loop is synchronous: the model is called only between steps.
CanPlan == pc = "Running"

InvalidToolObservation_generic(requested) == <<"Invalid tool.">>

\* InvalidTool: names the tool asked for and those available
InvalidToolObservation(requested) ==
    <<requested, " is not a valid tool, try one of [", "Image Generator", "].">>

\* _return, with the inputs invoke adds to it
return_values(output, steps) ==
    [output |-> output,
     intermediate_steps |-> IF return_intermediate_steps THEN steps ELSE <<>>,
     chat_history |-> chat_history]

Init ==
    /\ pc = "Idle"
    /\ iterations = 0
    /\ intermediate_steps = <<>>
    /\ pending = NoOutcome
    /\ chat_history = <<>>
    /\ chat_memory = <<>>
    /\ result = NoResult
    /\ raised = "none"
    /\ terminationReason = "none"
    /\ model_output = NoOutcome
    /\ tool_error = "none"
    /\ model_calls = 0
    /\ tool_calls = 0
    /\ in_flight = 0
    /\ n_tasks = 0

\* agent_executor.invoke({"input": ...}): a new task; the memory window is loaded.
Invoke ==
    /\ pc \in {"Idle", "Done", "Fault"}
    /\ n_tasks < MaxTasks
    /\ n_tasks' = n_tasks + 1
    /\ pc' = "Running"
    /\ iterations' = 0
    /\ intermediate_steps' = <<>>
    /\ pending' = NoOutcome
    /\ chat_history' = buffer(chat_memory)
    /\ result' = NoResult
    /\ raised' = "none"
    /\ terminationReason' = "none"
    /\ model_output' = NoOutcome
    /\ tool_error' = "none"
    /\ model_calls' = 0
    /\ tool_calls' = 0
    /\ in_flight' = 0
    /\ UNCHANGED chat_memory

\* The task returns `output`: the result goes to the caller and the exchange to memory.
Finish(output, reason) ==
    /\ pc' = "Done"
    /\ terminationReason' = reason
    /\ result' = return_values(output, intermediate_steps)
    /\ chat_memory' = save_context(chat_memory, TaskInput, output)
    /\ raised' = "none"

\* The task ends with an exception: nothing is returned, nothing is saved.
Raise(exception) ==
    /\ pc' = "Fault"
    /\ raised' = exception
    /\ UNCHANGED <<terminationReason, result, chat_memory>>

\* One more step on the scratchpad, one more iteration, and the loop goes on.
Continue(step) ==
    /\ pc' = "Running"
    /\ intermediate_steps' = Append(intermediate_steps, step)
    /\ iterations' = iterations + 1
    /\ UNCHANGED <<terminationReason, result, chat_memory, raised>>

\* The model answers with a final answer.
ModelReturnsFinalAnswer ==
    /\ CanPlan
    /\ should_continue(iterations)
    /\ \E o \in FinalAnswerOutcomes :
        /\ model_output' = o
        /\ Finish(o.text, "FinalAnswer")
    /\ model_calls' = model_calls + 1
    /\ tool_error' = "none"
    /\ UNCHANGED <<iterations, intermediate_steps, pending, chat_history,
                   tool_calls, in_flight, n_tasks>>

\* The model's text does not parse.
ModelReturnsParseError ==
    /\ CanPlan
    /\ should_continue(iterations)
    /\ \E o \in ParseErrorOutcomes :
        /\ model_output' = o
        /\ IF handle_parsing_errors
           THEN Continue(Step("_Exception", o.text, o.text))
           ELSE /\ Raise("OutputParserException")
                /\ UNCHANGED <<iterations, intermediate_steps>>
    /\ model_calls' = model_calls + 1
    /\ tool_error' = "none"
    /\ UNCHANGED <<pending, chat_history, tool_calls, in_flight, n_tasks>>

\* The model asks for a tool: a registered one is started, another is answered
\* by InvalidTool at once.
ModelReturnsAction ==
    /\ CanPlan
    /\ should_continue(iterations)
    /\ \E o \in ActionOutcomes :
        /\ model_output' = o
        /\ IF o.tool \in tools
           THEN /\ pc' = "AwaitingToolResult"
                /\ pending' = o
                /\ tool_calls' = tool_calls + 1
                /\ in_flight' = in_flight + 1
                /\ UNCHANGED <<iterations, intermediate_steps, terminationReason,
                               result, chat_memory, raised>>
           ELSE /\ Continue(Step(o.tool, <<o.tool_input>>, InvalidToolObservation(o.tool)))
                /\ UNCHANGED <<pending, tool_calls, in_flight>>
    /\ model_calls' = model_calls + 1
    /\ tool_error' = "none"
    /\ UNCHANGED <<chat_history, n_tasks>>

\* The tool call ends: with the URL, or with the ToolException of _run.
ToolReturns ==
    /\ pc = "AwaitingToolResult"
    /\ \E outcome \in ProdiaOutcomes :
        LET r == ImageGenerator_run(outcome) IN
        /\ tool_error' = outcome.error
        /\ IF r.raised /\ ~handle_tool_error
           THEN /\ Raise("ToolException")
                /\ UNCHANGED <<iterations, intermediate_steps>>
           ELSE Continue(Step(pending.tool, <<pending.tool_input>>, r.value))
    /\ in_flight' = in_flight - 1
    /\ pending' = NoOutcome
    /\ UNCHANGED <<chat_history, model_output, model_calls, tool_calls, n_tasks>>

\* The iteration budget is used up: return_stopped_response.
StoppedResponse ==
    /\ pc = "Running"
    /\ ~should_continue(iterations)
    /\ IF early_stopping_method \in SupportedEarlyStopping
       THEN Finish(<<StoppedText>>, "MaxIterationsExceeded")
       ELSE Raise("ValueError")
    /\ UNCHANGED <<iterations, intermediate_steps, pending, chat_history, model_output,
                   tool_error, model_calls, tool_calls, in_flight, n_tasks>>

Next ==
    \/ Invoke
    \/ ModelReturnsFinalAnswer
    \/ ModelReturnsParseError
    \/ ModelReturnsAction
    \/ ToolReturns
    \/ StoppedResponse

Spec == Init /\ [][Next]_vars

----------------------------------------------------------------------------
\* Claims

Last(s) == s[Len(s)]

\* The task has ended, by a return or by an exception.
Ended == pc \in {"Done", "Fault"}

\* w is what the last k exchanges of messages are
IsWindowOf(w, messages) ==
    /\ Len(w) = (IF Len(messages) <= 2 * k THEN Len(messages) ELSE 2 * k)
    /\ \A i \in 1..Len(w) : w[i] = messages[Len(messages) - Len(w) + i]

\* C1: every run ends in a Done state, and issues at most max_iterations + 1
\* model calls on the way.
C1_TerminatesInDone ==
    /\ pc # "Fault"
    /\ model_calls <= max_iterations + 1

\* C2: when the tool callable fails, the loop does not end with a fault: a step
\* with the failure observation is appended, the iteration counter goes up by
\* one and the executor is Running again.
C2_ToolFailureRecovered ==
    [][ (pc = "AwaitingToolResult" /\ tool_error' # "none") =>
            /\ pc' = "Running"
            /\ iterations' = iterations + 1
            /\ intermediate_steps' =
                 Append(intermediate_steps,
                        Step(pending.tool, <<pending.tool_input>>, <<ToolExceptionMessage>>))
      ]_vars

\* C3: when the iteration counter reaches the maximum with no final answer, one
\* more model call is issued, no tool runs after it, and the run ends in Done
\* with terminationReason MaxIterationsExceeded and that call's text as the answer.
C3_ForcedGenerationAtMaxIterations ==
    (Ended /\ iterations = max_iterations) =>
        /\ pc = "Done"
        /\ terminationReason = "MaxIterationsExceeded"
        /\ model_calls = max_iterations + 1
        /\ in_flight = 0
        /\ result.output # <<>>

\* C4 as stated: the conversation memory never holds more than k exchanges
\* (committing one more removes the oldest).
C4_MemoryHoldsAtMostK == Len(chat_memory) <= 2 * k

\* C4, amended: the window the memory shows (and each task is given) is the last
\* k exchanges at most, in order, so that a commit when k are shown drops the
\* oldest from the window; the store itself only grows, by one exchange, and
\* only in the step that ends a task with an answer.
C4_WindowSlides ==
    [][ /\ IsWindowOf(buffer(chat_memory'), chat_memory')
        /\ IF chat_memory' # chat_memory
           THEN IsWindowOf(chat_history', chat_memory)
           ELSE IsWindowOf(chat_history', chat_memory')
        /\ chat_memory' # chat_memory =>
             /\ pc = "Running" /\ pc' = "Done"
             /\ chat_memory' = chat_memory \o << Message("human", <<TaskInput>>),
                                                Message("ai", result'.output) >>
             /\ Len(buffer(chat_memory)) = 2 * k =>
                  buffer(chat_memory') =
                      SubSeq(buffer(chat_memory), 3, 2 * k)
                          \o SubSeq(chat_memory', Len(chat_memory') - 1, Len(chat_memory'))
      ]_vars

\* An exchange was committed when the window already showed k of them.
C4_WindowSlid ==
    /\ pc = "Done"
    /\ Len(chat_history) = 2 * k
    /\ Len(chat_memory) = 2 * k + 2

\* C5: after a tool failure the observation fed back is the tool's fixed
\* message, whatever was raised inside the tool, and never the raw message.
C5_FailureObservationIsSafeText ==
    tool_error # "none" =>
        /\ intermediate_steps # <<>>
        /\ Last(intermediate_steps).observation = <<ToolExceptionMessage>>
        /\ ~Contains(Last(intermediate_steps).observation, tool_error)

\* C7: on Done the trail returned is the scratchpad, step for step, one step
\* per iteration; a run of one Action whose tool returns the URL and then a
\* final answer citing it returns a trail of length 1, an answer with the URL,
\* and terminationReason FinalAnswer.
C7_TrailIsScratchpad ==
    pc = "Done" =>
        /\ result.intermediate_steps = intermediate_steps
        /\ Len(result.intermediate_steps) = iterations
        /\ terminationReason = "FinalAnswer" => result.output = model_output.text
        /\ ( /\ model_calls = 2
             /\ tool_calls = 1
             /\ Contains(model_output.text, ImageUrl) ) =>
                /\ Len(result.intermediate_steps) = 1
                /\ result.intermediate_steps[1].observation = <<ImageUrl>>
                /\ Contains(result.output, ImageUrl)
                /\ terminationReason = "FinalAnswer"

\* The run of the scenario: one Action, the tool's URL, a final answer citing it.
C7_OneStepRun ==
    /\ pc = "Done"
    /\ model_calls = 2
    /\ tool_calls = 1
    /\ intermediate_steps = << Step("Image Generator",
                                    <<"Two small cats playing with a ball of yarn">>,
                                    <<ImageUrl>>) >>
    /\ Contains(result.output, ImageUrl)

\* C8: a model output that does not parse keeps the executor Running, starts no
\* tool, appends one step whose observation is the diagnostic, and uses up one
\* iteration of a budget it cannot exceed.
C8_ParseErrorConsumesBudget ==
    [][ (model_calls' = model_calls + 1 /\ model_output'.type = "ParseError") =>
            /\ pc' = "Running"
            /\ tool_calls' = tool_calls
            /\ in_flight' = 0
            /\ intermediate_steps' =
                 Append(intermediate_steps,
                        Step("_Exception", <<InvalidFormat>>, <<InvalidFormat>>))
            /\ iterations' = iterations + 1
            /\ iterations' <= max_iterations
            /\ model_calls' <= max_iterations
      ]_vars

\* The whole budget went on parse errors.
C8_OnlyParseErrors ==
    /\ pc = "Running"
    /\ iterations = max_iterations
    /\ \A i \in 1..Len(intermediate_steps) : intermediate_steps[i].tool = "_Exception"

\* C9: within a task a tool is started only by a fresh Action outcome, once; at
\* most one tool runs at a time; and a model call is issued only when no tool
\* runs and every earlier call's step is on the scratchpad.
C9_StrictlySequential ==
    [][ n_tasks' = n_tasks =>
            /\ in_flight' \in {0, 1}
            /\ (in_flight' = 1) <=> (pc' = "AwaitingToolResult")
            /\ tool_calls' # tool_calls =>
                 /\ tool_calls' = tool_calls + 1
                 /\ model_calls' = model_calls + 1
                 /\ model_output'.type = "Action"
            /\ model_calls' # model_calls =>
                 /\ model_calls' = model_calls + 1
                 /\ in_flight = 0
                 /\ Len(intermediate_steps) = model_calls
      ]_vars

\* A second tool call of the same task is running.
C9_SecondToolCall ==
    /\ pc = "AwaitingToolResult"
    /\ in_flight = 1
    /\ tool_calls = 2
    /\ Len(intermediate_steps) = 1

\* C10: an Action naming a tool that is not registered starts no tool; a step
\* for that Action, with an observation naming the unknown tool, is appended,
\* the iteration counter goes up by one and the executor is Running again.
C10_UnknownToolIsObservation ==
    [][ ( /\ model_calls' = model_calls + 1
          /\ model_output'.type = "Action"
          /\ model_output'.tool \notin tools ) =>
            /\ tool_calls' = tool_calls
            /\ in_flight' = 0
            /\ pc' = "Running"
            /\ iterations' = iterations + 1
            /\ Len(intermediate_steps') = Len(intermediate_steps) + 1
            /\ SubSeq(intermediate_steps', 1, Len(intermediate_steps)) = intermediate_steps
            /\ Last(intermediate_steps').tool = model_output'.tool
            /\ Last(intermediate_steps').tool # "_Exception"
            /\ Contains(Last(intermediate_steps').observation, model_output'.tool)
      ]_vars

\* The model asked for a tool that is not registered, and the loop went on.
C10_UnknownToolAsked ==
    /\ pc = "Running"
    /\ intermediate_steps # <<>>
    /\ Last(intermediate_steps).tool = "Web Search"
    /\ model_output.tool = "Web Search"

====
